---- MODULE Spec2Model ----
(***************************************************************************)
(* The allocation engine of the parking lot (class ParkingLot of           *)
(* src/main.cpp): slots, the three free min-heaps, the vehicle directory,  *)
(* the shared FIFO waitlist, the ticket counter, the statistics and the    *)
(* rate table.  One action per public operation.                           *)
(***************************************************************************)
EXTENDS Integers, Sequences, FiniteSets, Bags, TLC

\* ------------------------------------------------------------- bounds
\* initialize() is called with at most MaxSlots slots in total
MaxSlots == 2
\* vehicleEntry() does not queue a request on a waitlist of MaxWait entries
MaxWait == 2
\* no ticket is minted beyond ticket number MaxTickets
MaxTickets == 3
\* no fee is billed that takes the total earnings beyond MaxEarnings
MaxEarnings == 100

\* ------------------------------------------------------------- inputs
VehicleTypes == {"CAR", "BIKE", "TRUCK"}
VehicleIDs == {"V1", "V2"}
\* durations handed to vehicleExit (long long, negative included)
Durations == {-1, 0, 60, 61}
\* rates handed to setRate (the menu refuses negative ones)
RateInputs == {50}

VARIABLES
    slots,                \* vector<Slot> slots_, indexed from 0
    freeCars,             \* min-heap of free CAR slot indices (a bag)
    freeBikes,            \* min-heap of free BIKE slot indices
    freeTrucks,           \* min-heap of free TRUCK slot indices
    vehicleToSlot,        \* unordered_map vehicleID -> slot index
    waitlist,             \* queue<WaitEntry>, front first
    ticketCounter,        \* ticketCounter_
    totalVehiclesServed,  \* totalVehiclesServed_
    totalEarnings,        \* totalEarnings_
    ratePerHour,          \* ratePerHour_
    out,                  \* what the last call reported on cout
    highestIssued         \* history: the greatest ticket number minted since
                          \* construction (kept only under SpecTracked)

vars == <<slots, freeCars, freeBikes, freeTrucks, vehicleToSlot, waitlist,
          ticketCounter, totalVehiclesServed, totalEarnings, ratePerHour, out,
          highestIssued>>

\* ------------------------------------------------------------- Ticket, Slot, WaitEntry
\* Ticket(tid, vid, vt, idx)
Ticket(tid, vid, vt, idx) ==
    [id |-> tid, vehicleID |-> vid, vtype |-> vt, slotIndex |-> idx]

\* Ticket{}: value-initialised, so empty strings, VehicleType 0 (CAR), index 0.
\* A Slot built by Slot(idx, vt) holds a default-initialised ticket whose vtype
\* and slotIndex are indeterminate; no operation reads the ticket of a slot
\* that is not occupied, and the model gives it the same value.
EmptyTicket == Ticket("", "", "CAR", 0)

\* Slot(idx, vt)
Slot(idx, vt) ==
    [index |-> idx, type |-> vt, occupied |-> FALSE, ticket |-> EmptyTicket]

\* Slot::assignTicket
assignTicket(s, t) == [s EXCEPT !.ticket = t, !.occupied = TRUE]

\* Slot::releaseTicket: the slot afterwards (the ticket returned is s.ticket)
releaseTicket(s) == [s EXCEPT !.occupied = FALSE, !.ticket = EmptyTicket]

\* WaitEntry(v, t)
WaitEntry(v, t) == [vehicleID |-> v, type |-> t]

\* ------------------------------------------------------------- heaps
\* priority_queue<int, vector<int>, greater<int>>: a bag of indices whose
\* top is its least element
\* faulty variant: the top is the greatest index (a max-heap)
heapTopGreatest(h) == CHOOSE x \in BagToSet(h) : \A y \in BagToSet(h) : x >= y
heapTop(h) == CHOOSE x \in BagToSet(h) : \A y \in BagToSet(h) : x <= y
\* faulty variant: the index taken is left in the heap
heapPopKeepsTop(h) == h
heapPop(h) == h (-) SetToBag({heapTop(h)})
heapPush(h, x) == h (+) SetToBag({x})
heapEmpty(h) == BagToSet(h) = {}

\* heapFor(vt): the heap of a vehicle type
heapFor(vt) ==
    IF vt = "CAR" THEN freeCars
    ELSE IF vt = "BIKE" THEN freeBikes
    ELSE freeTrucks

\* assignment through the reference heapFor(vt) returns
setHeapFor(vt, h) ==
    /\ freeCars' = IF vt = "CAR" THEN h ELSE freeCars
    /\ freeBikes' = IF vt = "BIKE" THEN h ELSE freeBikes
    /\ freeTrucks' = IF vt \notin {"CAR", "BIKE"} THEN h ELSE freeTrucks

\* faulty variant: the counter is read before it is incremented
nextTicketIDStale == "T" \o ToString(ticketCounter)
\* nextTicketID(): "T" + to_string(++ticketCounter_)
nextTicketID == "T" \o ToString(ticketCounter + 1)

\* unordered_map: the empty map, insertion or overwrite of a key, erase
EmptyMap == [k \in {} |-> 0]
mapPut(m, k, v) == [x \in DOMAIN m \cup {k} |-> IF x = k THEN v ELSE m[x]]
\* faulty variant: erase leaves the key in the map
mapEraseKeeps(m, k) == m
mapErase(m, k) == [x \in DOMAIN m \ {k} |-> m[x]]

\* ------------------------------------------------------------- construction
DefaultRates == [vt \in VehicleTypes |->
    IF vt = "CAR" THEN 50 ELSE IF vt = "BIKE" THEN 20 ELSE 100]

Init ==
    /\ slots = EmptyMap
    /\ freeCars = EmptyBag
    /\ freeBikes = EmptyBag
    /\ freeTrucks = EmptyBag
    /\ vehicleToSlot = EmptyMap
    /\ waitlist = <<>>
    /\ ticketCounter = 0
    /\ totalVehiclesServed = 0
    /\ totalEarnings = 0
    /\ ratePerHour = DefaultRates
    /\ out = [kind |-> "None"]
    /\ highestIssued = 0

\* ------------------------------------------------------------- initialize
\* faulty variant: the waitlist of the lot before is kept
initializeKeepsWaitlist(numCars, numBikes, numTrucks) ==
    /\ slots' = [idx \in 0 .. (numCars + numBikes + numTrucks - 1) |->
                    IF idx < numCars THEN Slot(idx, "CAR")
                    ELSE IF idx < numCars + numBikes THEN Slot(idx, "BIKE")
                    ELSE Slot(idx, "TRUCK")]
    /\ freeCars' = SetToBag(0 .. (numCars - 1))
    /\ freeBikes' = SetToBag(numCars .. (numCars + numBikes - 1))
    /\ freeTrucks' = SetToBag((numCars + numBikes) .. (numCars + numBikes + numTrucks - 1))
    /\ vehicleToSlot' = EmptyMap
    /\ ticketCounter' = 0
    /\ totalVehiclesServed' = 0
    /\ totalEarnings' = 0
    /\ out' = [kind |-> "Initialized", total |-> numCars + numBikes + numTrucks,
               cars |-> numCars, bikes |-> numBikes, trucks |-> numTrucks]
    /\ UNCHANGED <<ratePerHour, waitlist>>

initialize(numCars, numBikes, numTrucks) ==
    /\ slots' = [idx \in 0 .. (numCars + numBikes + numTrucks - 1) |->
                    IF idx < numCars THEN Slot(idx, "CAR")
                    ELSE IF idx < numCars + numBikes THEN Slot(idx, "BIKE")
                    ELSE Slot(idx, "TRUCK")]
    /\ freeCars' = SetToBag(0 .. (numCars - 1))
    /\ freeBikes' = SetToBag(numCars .. (numCars + numBikes - 1))
    /\ freeTrucks' = SetToBag((numCars + numBikes) .. (numCars + numBikes + numTrucks - 1))
    /\ vehicleToSlot' = EmptyMap
    /\ waitlist' = <<>>
    /\ ticketCounter' = 0
    /\ totalVehiclesServed' = 0
    /\ totalEarnings' = 0
    /\ out' = [kind |-> "Initialized", total |-> numCars + numBikes + numTrucks,
               cars |-> numCars, bikes |-> numBikes, trucks |-> numTrucks]
    /\ UNCHANGED ratePerHour

\* ------------------------------------------------------------- setRate
setRate(vt, rate) ==
    /\ ratePerHour' = [ratePerHour EXCEPT ![vt] = rate]
    /\ out' = [kind |-> "RateSet"]
    /\ UNCHANGED <<slots, freeCars, freeBikes, freeTrucks, vehicleToSlot, waitlist,
                   ticketCounter, totalVehiclesServed, totalEarnings>>

\* ------------------------------------------------------------- vehicleEntry
\* vehicleToSlot_.count(vehicleID)
isParked(vehicleID) == vehicleID \in DOMAIN vehicleToSlot

\* faulty variant: the refused entry is counted as a vehicle served
entryAlreadyParkedCounts(vehicleID) ==
    /\ out' = [kind |-> "AlreadyParked", vehicleID |-> vehicleID,
               slotNo |-> vehicleToSlot[vehicleID] + 1]
    /\ totalVehiclesServed' = totalVehiclesServed + 1
    /\ UNCHANGED <<slots, freeCars, freeBikes, freeTrucks, vehicleToSlot, waitlist,
                   ticketCounter, totalEarnings, ratePerHour>>

\* the vehicle is already in the directory: report it and return
entryAlreadyParked(vehicleID) ==
    /\ out' = [kind |-> "AlreadyParked", vehicleID |-> vehicleID,
               slotNo |-> vehicleToSlot[vehicleID] + 1]
    /\ UNCHANGED <<slots, freeCars, freeBikes, freeTrucks, vehicleToSlot, waitlist,
                   ticketCounter, totalVehiclesServed, totalEarnings, ratePerHour>>

\* the heap of the type is not empty: take its top, mint a ticket, bind the slot
entryAssign(vehicleID, vt) ==
    LET slotIdx == heapTop(heapFor(vt))
        tid == nextTicketID
        t == Ticket(tid, vehicleID, vt, slotIdx)
    IN  /\ ticketCounter < MaxTickets
        /\ setHeapFor(vt, heapPop(heapFor(vt)))
        /\ ticketCounter' = ticketCounter + 1
        /\ slots' = [slots EXCEPT ![slotIdx] = assignTicket(@, t)]
        /\ vehicleToSlot' = mapPut(vehicleToSlot, vehicleID, slotIdx)
        /\ totalVehiclesServed' = totalVehiclesServed + 1
        /\ out' = [kind |-> "Ticket", ticket |-> tid, vehicleID |-> vehicleID,
                   type |-> vt, slotNo |-> slotIdx + 1]
        /\ UNCHANGED <<waitlist, totalEarnings, ratePerHour>>

\* the heap of the type is empty: queue the request at the back
entryWaitlist(vehicleID, vt) ==
    /\ Len(waitlist) < MaxWait
    /\ waitlist' = Append(waitlist, WaitEntry(vehicleID, vt))
    /\ out' = [kind |-> "Waitlisted", type |-> vt, position |-> Len(waitlist) + 1]
    /\ UNCHANGED <<slots, freeCars, freeBikes, freeTrucks, vehicleToSlot,
                   ticketCounter, totalVehiclesServed, totalEarnings, ratePerHour>>

vehicleEntry(vehicleID, vt) ==
    IF isParked(vehicleID) THEN entryAlreadyParked(vehicleID)
    ELSE IF ~heapEmpty(heapFor(vt)) THEN entryAssign(vehicleID, vt)
    ELSE entryWaitlist(vehicleID, vt)

\* ------------------------------------------------------------- vehicleExit
\* if (durationMinutes < 0) durationMinutes = 0
clampDuration(durationMinutes) ==
    IF durationMinutes < 0 THEN 0 ELSE durationMinutes

\* faulty variant: the hours are rounded down
billedHoursRoundsDown(durationMinutes) ==
    LET hours == clampDuration(durationMinutes) \div 60
    IN  IF hours = 0 THEN 1 ELSE hours

\* hours = (durationMinutes + 59) / 60; if (hours == 0) hours = 1
billedHours(durationMinutes) ==
    LET hours == (clampDuration(durationMinutes) + 59) \div 60
    IN  IF hours = 0 THEN 1 ELSE hours

\* fee = hours * ratePerHour_[s.type()]
feeFor(vt, durationMinutes) == billedHours(durationMinutes) * ratePerHour[vt]

\* faulty variant: the request served is the one at the back of the queue
waitFrontIsBack == waitlist[Len(waitlist)]
\* waitlist_.front()
waitFront == Head(waitlist)

\* faulty variant: the type of the front request is not compared
frontMatchesAny(vt) == waitlist # <<>>

\* does the freed slot of type vt go to the waitlist?  Only the front of the
\* queue is looked at.
frontMatches(vt) ==
    /\ waitlist # <<>>
    /\ waitFront.type = vt

\* faulty variant: the exit of a vehicle that is not parked withdraws its requests
exitNotFoundWithdraws(vehicleID) ==
    /\ out' = [kind |-> "NotFound", vehicleID |-> vehicleID]
    /\ waitlist' = SelectSeq(waitlist, LAMBDA e : e.vehicleID # vehicleID)
    /\ UNCHANGED <<slots, freeCars, freeBikes, freeTrucks, vehicleToSlot,
                   ticketCounter, totalVehiclesServed, totalEarnings, ratePerHour>>

\* vehicleToSlot_.find(vehicleID) found nothing: report it and return
exitNotFound(vehicleID) ==
    /\ out' = [kind |-> "NotFound", vehicleID |-> vehicleID]
    /\ UNCHANGED <<slots, freeCars, freeBikes, freeTrucks, vehicleToSlot, waitlist,
                   ticketCounter, totalVehiclesServed, totalEarnings, ratePerHour>>

\* the directory names a slot that is not occupied: drop the directory entry
exitInconsistent(vehicleID) ==
    /\ out' = [kind |-> "Inconsistent"]
    /\ vehicleToSlot' = mapErase(vehicleToSlot, vehicleID)
    /\ UNCHANGED <<slots, freeCars, freeBikes, freeTrucks, waitlist, ticketCounter,
                   totalVehiclesServed, totalEarnings, ratePerHour>>

\* the receipt printed for the slot released
receiptFor(vehicleID, slotIdx, durationMinutes) ==
    [kind |-> "Receipt", vehicleID |-> vehicleID, slotNo |-> slotIdx + 1,
     type |-> slots[slotIdx].type,
     duration |-> clampDuration(durationMinutes),
     hours |-> billedHours(durationMinutes),
     rate |-> ratePerHour[slots[slotIdx].type],
     fee |-> feeFor(slots[slotIdx].type, durationMinutes)]

\* faulty variant: the rebinding does not count the vehicle as served
exitRebindUncounted(vehicleID, slotIdx, durationMinutes) ==
    LET front == waitFront
        newTicketID == nextTicketID
        nt == Ticket(newTicketID, front.vehicleID, front.type, slotIdx)
    IN  /\ ticketCounter < MaxTickets
        /\ waitlist' = Tail(waitlist)
        /\ ticketCounter' = ticketCounter + 1
        /\ slots' = [slots EXCEPT ![slotIdx] = assignTicket(releaseTicket(@), nt)]
        /\ vehicleToSlot' = mapPut(mapErase(vehicleToSlot, vehicleID),
                                   front.vehicleID, slotIdx)
        /\ out' = receiptFor(vehicleID, slotIdx, durationMinutes)
                    @@ [assignedToWait |-> TRUE, waitVehicle |-> front.vehicleID,
                        newTicket |-> newTicketID]
        /\ UNCHANGED <<freeCars, freeBikes, freeTrucks, totalVehiclesServed>>

\* the freed slot goes to the front of the waitlist, with a new ticket
exitRebind(vehicleID, slotIdx, durationMinutes) ==
    LET front == waitFront
        newTicketID == nextTicketID
        nt == Ticket(newTicketID, front.vehicleID, front.type, slotIdx)
    IN  /\ ticketCounter < MaxTickets
        /\ waitlist' = Tail(waitlist)
        /\ ticketCounter' = ticketCounter + 1
        /\ slots' = [slots EXCEPT ![slotIdx] = assignTicket(releaseTicket(@), nt)]
        /\ vehicleToSlot' = mapPut(mapErase(vehicleToSlot, vehicleID),
                                   front.vehicleID, slotIdx)
        /\ totalVehiclesServed' = totalVehiclesServed + 1
        /\ out' = receiptFor(vehicleID, slotIdx, durationMinutes)
                    @@ [assignedToWait |-> TRUE, waitVehicle |-> front.vehicleID,
                        newTicket |-> newTicketID]
        /\ UNCHANGED <<freeCars, freeBikes, freeTrucks>>

\* the freed slot goes back into the free heap of its type
exitFree(vehicleID, slotIdx, durationMinutes) ==
    /\ slots' = [slots EXCEPT ![slotIdx] = releaseTicket(@)]
    /\ vehicleToSlot' = mapErase(vehicleToSlot, vehicleID)
    /\ setHeapFor(slots[slotIdx].type, heapPush(heapFor(slots[slotIdx].type), slotIdx))
    /\ out' = receiptFor(vehicleID, slotIdx, durationMinutes)
                @@ [assignedToWait |-> FALSE]
    /\ UNCHANGED <<waitlist, ticketCounter, totalVehiclesServed>>

\* faulty variant: the earnings grow by one hour's rate, whatever the stay
exitBillOneHour(vehicleID, slotIdx, durationMinutes) ==
    /\ totalEarnings + feeFor(slots[slotIdx].type, durationMinutes) <= MaxEarnings
    /\ totalEarnings' = totalEarnings + ratePerHour[slots[slotIdx].type]
    /\ UNCHANGED ratePerHour
    /\ IF frontMatches(slots[slotIdx].type)
       THEN exitRebind(vehicleID, slotIdx, durationMinutes)
       ELSE exitFree(vehicleID, slotIdx, durationMinutes)

\* bill the stay, release the slot, then rebind it or free it
exitBill(vehicleID, slotIdx, durationMinutes) ==
    /\ totalEarnings + feeFor(slots[slotIdx].type, durationMinutes) <= MaxEarnings
    /\ totalEarnings' = totalEarnings + feeFor(slots[slotIdx].type, durationMinutes)
    /\ UNCHANGED ratePerHour
    /\ IF frontMatches(slots[slotIdx].type)
       THEN exitRebind(vehicleID, slotIdx, durationMinutes)
       ELSE exitFree(vehicleID, slotIdx, durationMinutes)

vehicleExit(vehicleID, durationMinutes) ==
    IF vehicleID \notin DOMAIN vehicleToSlot THEN exitNotFound(vehicleID)
    ELSE IF ~slots[vehicleToSlot[vehicleID]].occupied THEN exitInconsistent(vehicleID)
    ELSE exitBill(vehicleID, vehicleToSlot[vehicleID], durationMinutes)

\* ------------------------------------------------------------- reports
\* what displayAvailability() prints: the sizes of the three heaps, the
\* occupied slots in index order, the waitlist from front to back (read from
\* the copy tmp of the queue, which the loop pops until it is empty)
RECURSIVE printQueue(_, _)
printQueue(tmp, pos) ==
    IF tmp = <<>> THEN <<>>
    ELSE <<[pos |-> pos, vehicleID |-> Head(tmp).vehicleID, type |-> Head(tmp).type]>>
         \o printQueue(Tail(tmp), pos + 1)

availabilityReport ==
    [kind |-> "Availability",
     freeC |-> BagCardinality(freeCars),
     freeB |-> BagCardinality(freeBikes),
     freeT |-> BagCardinality(freeTrucks),
     occupied |-> [i \in {j \in DOMAIN slots : slots[j].occupied} |->
                     [slotNo |-> slots[i].index + 1, type |-> slots[i].type,
                      vehicleID |-> slots[i].ticket.vehicleID,
                      ticket |-> slots[i].ticket.id]],
     waitSize |-> Len(waitlist),
     waitRows |-> printQueue(waitlist, 1)]

\* faulty variant: the loop pops waitlist_ itself, not the copy tmp
displayAvailabilityDrains ==
    /\ out' = availabilityReport
    /\ waitlist' = <<>>
    /\ UNCHANGED <<slots, freeCars, freeBikes, freeTrucks, vehicleToSlot,
                   ticketCounter, totalVehiclesServed, totalEarnings, ratePerHour>>

displayAvailability ==
    /\ out' = availabilityReport
    /\ UNCHANGED <<slots, freeCars, freeBikes, freeTrucks, vehicleToSlot, waitlist,
                   ticketCounter, totalVehiclesServed, totalEarnings, ratePerHour>>

\* occupancy = total == 0 ? 0.0 : 100.0 * occupied / total, printed with two
\* decimals: the value in hundredths of a percent, rounded to the nearest
occupancyPercent(occupied, total) ==
    IF total = 0 THEN 0 ELSE (20000 * occupied + total) \div (2 * total)

\* what displayStats() prints
statsReport ==
    LET occupied == Cardinality({i \in DOMAIN slots : slots[i].occupied})
        total == Cardinality(DOMAIN slots)
    IN  [kind |-> "Stats", total |-> total, occupied |-> occupied,
         occupancy |-> occupancyPercent(occupied, total),
         served |-> totalVehiclesServed, earnings |-> totalEarnings,
         rates |-> ratePerHour]

displayStats ==
    /\ out' = statsReport
    /\ UNCHANGED <<slots, freeCars, freeBikes, freeTrucks, vehicleToSlot, waitlist,
                   ticketCounter, totalVehiclesServed, totalEarnings, ratePerHour>>

\* what printSlotsLayout() prints: slot number, type and status of every slot
layoutReport ==
    [kind |-> "Layout",
     rows |-> [i \in DOMAIN slots |->
                 [slotNo |-> slots[i].index + 1, type |-> slots[i].type,
                  status |-> IF slots[i].occupied
                             THEN "OCC - " \o slots[i].ticket.vehicleID
                             ELSE "FREE"]]]

printSlotsLayout ==
    /\ out' = layoutReport
    /\ UNCHANGED <<slots, freeCars, freeBikes, freeTrucks, vehicleToSlot, waitlist,
                   ticketCounter, totalVehiclesServed, totalEarnings, ratePerHour>>

\* ------------------------------------------------------------- the program
\* the ticket number that nextTicketID() returns in this step, 0 if it is
\* not called
mintedNow == IF ticketCounter' = ticketCounter + 1 THEN ticketCounter' ELSE 0

\* the history variable follows the tickets minted
trackIssued ==
    highestIssued' = IF mintedNow > highestIssued THEN mintedNow ELSE highestIssued

\* the program: any operation of ParkingLot, called with any of the inputs;
\* the history of tickets is left out
Next ==
    \/ \E numCars, numBikes, numTrucks \in 0 .. MaxSlots :
          /\ numCars + numBikes + numTrucks <= MaxSlots
          /\ initialize(numCars, numBikes, numTrucks)
          /\ UNCHANGED highestIssued
    \/ \E vt \in VehicleTypes, rate \in RateInputs :
          setRate(vt, rate) /\ UNCHANGED highestIssued
    \/ \E vehicleID \in VehicleIDs, vt \in VehicleTypes :
          vehicleEntry(vehicleID, vt) /\ UNCHANGED highestIssued
    \/ \E vehicleID \in VehicleIDs, durationMinutes \in Durations :
          vehicleExit(vehicleID, durationMinutes) /\ UNCHANGED highestIssued
    \/ displayAvailability /\ UNCHANGED highestIssued
    \/ displayStats /\ UNCHANGED highestIssued
    \/ printSlotsLayout /\ UNCHANGED highestIssued

Spec == Init /\ [][Next]_vars

\* the program with the history of the tickets minted since construction;
\* every stay lasts one hour
TrackedDurations == {60}

NextTracked ==
    \/ \E numCars, numBikes, numTrucks \in 0 .. MaxSlots :
          /\ numCars + numBikes + numTrucks <= MaxSlots
          /\ initialize(numCars, numBikes, numTrucks)
          /\ trackIssued
    \/ \E vt \in VehicleTypes, rate \in RateInputs :
          setRate(vt, rate) /\ trackIssued
    \/ \E vehicleID \in VehicleIDs, vt \in VehicleTypes :
          vehicleEntry(vehicleID, vt) /\ trackIssued
    \/ \E vehicleID \in VehicleIDs, durationMinutes \in TrackedDurations :
          vehicleExit(vehicleID, durationMinutes) /\ trackIssued
    \/ displayAvailability /\ trackIssued
    \/ displayStats /\ trackIssued
    \/ printSlotsLayout /\ trackIssued

SpecTracked == Init /\ [][NextTracked]_vars

\* ------------------------------------------------------------- notions the claims use
\* the slots marked Occupied
OccupiedSlots == {i \in DOMAIN slots : slots[i].occupied}

\* the slots of type vt marked Free
FreeSlotsOf(vt) == {i \in DOMAIN slots : slots[i].type = vt /\ ~slots[i].occupied}

\* the positions of the waitlist that hold a request of type vt
WaitingOf(vt) == {k \in 1 .. Len(waitlist) : waitlist[k].type = vt}

\* the least element of a non-empty set of integers
MinOf(S) == CHOOSE x \in S : \A y \in S : x <= y

\* a sequence without its k-th element
RemoveAt(q, k) == SubSeq(q, 1, k - 1) \o SubSeq(q, k + 1, Len(q))

\* ------------------------------------------------------------- C1
\* C1: in every state the number of slots marked Occupied equals the number
\* of entries of the directory vehicleToSlot.
OccupiedEqualsDirectory ==
    Cardinality(OccupiedSlots) = Cardinality(DOMAIN vehicleToSlot)

\* ------------------------------------------------------------- C2
\* C2: no two distinct Occupied slots hold tickets bearing the same vehicle id.
NoVehicleInTwoSlots ==
    \A i, j \in OccupiedSlots :
        i # j => slots[i].ticket.vehicleID # slots[j].ticket.vehicleID

\* ------------------------------------------------------------- C4
\* C4: for every type, the free heap of the type is never non-empty while
\* the waitlist holds a request of that type.
NoFreeSlotWhileWaiting ==
    \A vt \in VehicleTypes : ~heapEmpty(heapFor(vt)) => WaitingOf(vt) = {}

\* ------------------------------------------------------------- C5
\* C5: for every type, the free heap of the type holds no index twice and
\* holds exactly the indices of the slots of that type that are marked Free.
HeapIsFreeSet ==
    \A vt \in VehicleTypes :
        /\ \A i \in BagToSet(heapFor(vt)) : CopiesIn(i, heapFor(vt)) = 1
        /\ BagToSet(heapFor(vt)) = FreeSlotsOf(vt)

\* a slot was released into its heap while another slot stays occupied and
\* a third index is still to be told apart: free and occupied slots coexist
HeapIsFreeSetWitness ==
    /\ out.kind = "Receipt"
    /\ ~out.assignedToWait
    /\ OccupiedSlots # {}
    /\ \E vt \in VehicleTypes : FreeSlotsOf(vt) # {}

\* ------------------------------------------------------------- C3
\* C3: a successful exit that frees a slot of type vt hands the slot, with a
\* newly minted ticket, to the earliest waitlist entry of type vt when there
\* is one, removing that entry alone and keeping the order of the others;
\* the slot returns to the free heap of vt only when no entry of type vt waits.
ExitServesEarliestOfType ==
    [][\A vehicleID \in VehicleIDs, durationMinutes \in Durations, vt \in VehicleTypes :
          ( /\ vehicleID \in DOMAIN vehicleToSlot
            /\ slots[vehicleToSlot[vehicleID]].occupied
            /\ slots[vehicleToSlot[vehicleID]].type = vt
            /\ vehicleExit(vehicleID, durationMinutes) )
          => LET slotIdx == vehicleToSlot[vehicleID]
             IN  IF WaitingOf(vt) # {}
                 THEN LET k == MinOf(WaitingOf(vt))
                      IN  /\ waitlist' = RemoveAt(waitlist, k)
                          /\ slots'[slotIdx].occupied
                          /\ slots'[slotIdx].ticket.vehicleID = waitlist[k].vehicleID
                          /\ slots'[slotIdx].ticket.id = nextTicketID
                          /\ heapFor(vt)' = heapFor(vt)
                 ELSE /\ waitlist' = waitlist
                      /\ ~slots'[slotIdx].occupied
                      /\ heapFor(vt)' = heapPush(heapFor(vt), slotIdx)
      ]_vars

\* ------------------------------------------------------------- C6
\* C6: requests of one type leave the waitlist in arrival order.  A request
\* joins the waitlist at the back only; whenever an exit rebinds a slot, the
\* request bound is one that no request of its type precedes in the queue,
\* it alone leaves the queue, and the requests left keep their order.
Rebound == out.kind = "Receipt" /\ out.assignedToWait

EngineState ==
    <<slots, freeCars, freeBikes, freeTrucks, vehicleToSlot, waitlist,
      ticketCounter, totalVehiclesServed, totalEarnings, ratePerHour>>

AlreadyParkedChangesNothing ==
    [][\A vehicleID \in VehicleIDs, vt \in VehicleTypes :
          (vehicleID \in DOMAIN vehicleToSlot /\ vehicleEntry(vehicleID, vt))
          => (out'.kind = "AlreadyParked" /\ EngineState' = EngineState)
      ]_vars

\* an entry was refused for a parked vehicle while slots of some type are
\* free and a request waits: the refusal is not for lack of room
AlreadyParkedWitness ==
    /\ out.kind = "AlreadyParked"
    /\ out.vehicleID \in DOMAIN vehicleToSlot
    /\ \E vt \in VehicleTypes : FreeSlotsOf(vt) # {}

\* ------------------------------------------------------------- C8
\* C8: vehicleExit for a vehicle that is not in the directory (never entered,
\* already gone, or only waitlisted) reports NotFound and changes nothing of
\* the engine state.
NotParkedChangesNothing ==
    [][\A vehicleID \in VehicleIDs, durationMinutes \in Durations :
          (vehicleID \notin DOMAIN vehicleToSlot
             /\ vehicleExit(vehicleID, durationMinutes))
          => (out'.kind = "NotFound" /\ EngineState' = EngineState)
      ]_vars

\* an exit was refused for a vehicle that is only on the waitlist, with
\* another vehicle parked
NotParkedWitness ==
    /\ out.kind = "NotFound"
    /\ \E k \in 1 .. Len(waitlist) : waitlist[k].vehicleID = out.vehicleID
    /\ OccupiedSlots # {}

\* ------------------------------------------------------------- C9
\* the least q with q * d >= n, for n >= 0 and d > 0
CeilDiv(n, d) == CHOOSE q \in 0 .. n : q * d >= n /\ (q = 0 \/ (q - 1) * d < n)

MaxOf2(a, b) == IF a >= b THEN a ELSE b

\* C9: a successful exit after m minutes from a slot of type vt bills
\* max(1, ceil(max(m, 0) / 60)) hours at the rate of vt at that moment and adds
\* that fee to the total earnings; at rate 50, 0 and 60 minutes and every
\* negative duration cost 50, and 61 minutes cost 100.
BillsCeilHoursMinOne ==
    [][\A vehicleID \in VehicleIDs, durationMinutes \in Durations :
          ( /\ vehicleID \in DOMAIN vehicleToSlot
            /\ slots[vehicleToSlot[vehicleID]].occupied
            /\ vehicleExit(vehicleID, durationMinutes) )
          => LET rate == ratePerHour[slots[vehicleToSlot[vehicleID]].type]
                 hours == MaxOf2(1, CeilDiv(MaxOf2(durationMinutes, 0), 60))
             IN  /\ out'.kind = "Receipt"
                 /\ out'.hours = hours
                 /\ out'.fee = hours * rate
                 /\ totalEarnings' = totalEarnings + hours * rate
                 /\ (rate = 50 /\ durationMinutes <= 60) => out'.fee = 50
                 /\ (rate = 50 /\ durationMinutes = 61) => out'.fee = 100
      ]_vars

\* 61 minutes at rate 50 were billed as two hours
BillsCeilHoursWitness ==
    /\ out.kind = "Receipt"
    /\ out.duration = 61
    /\ out.rate = 50
    /\ out.hours = 2
    /\ out.fee = 100

\* ------------------------------------------------------------- C10
\* C10: whenever vehicleEntry is called for a vehicle that is not parked and
\* a slot of the type asked for is marked Free, the vehicle is bound to the
\* lowest-numbered Free slot of that type.
NearestFreeSlot ==
    [][\A vehicleID \in VehicleIDs, vt \in VehicleTypes :
          ( /\ vehicleID \notin DOMAIN vehicleToSlot
            /\ FreeSlotsOf(vt) # {}
            /\ vehicleEntry(vehicleID, vt) )
          => LET nearest == MinOf(FreeSlotsOf(vt))
             IN  /\ out'.kind = "Ticket"
                 /\ out'.slotNo = nearest + 1
                 /\ slots'[nearest].occupied
                 /\ slots'[nearest].ticket.vehicleID = vehicleID
                 /\ slots'[nearest].ticket.slotIndex = nearest
                 /\ vehicleToSlot'[vehicleID] = nearest
                 /\ \A i \in DOMAIN slots : i # nearest => slots'[i] = slots[i]
      ]_vars

\* after earlier releases a vehicle was given a slot while a higher-numbered
\* slot of the same type is free
NearestFreeSlotWitness ==
    /\ out.kind = "Ticket"
    /\ ticketCounter >= 3
    /\ \E j \in FreeSlotsOf(out.type) : j > out.slotNo - 1

\* ------------------------------------------------------------- C11
\* a ticket was minted by the call just made, by a fresh entry or by a rebinding
Minted == out.kind = "Ticket" \/ (out.kind = "Receipt" /\ out.assignedToWait)

\* the identifier of that ticket
MintedId == IF out.kind = "Ticket" THEN out.ticket ELSE out.newTicket

\* the identifiers numbered from lo to hi
TicketIds(lo, hi) == {"T" \o ToString(n) : n \in lo .. hi}

\* C11 as stated: every ticket minted bears an identifier greater than every
\* identifier minted before it since construction, whatever calls of
\* initialize, vehicleEntry and vehicleExit came before.
TicketIdsGrowForLife ==
    [][Minted' => MintedId' \in TicketIds(highestIssued + 1, MaxTickets + 1)]_vars

\* C11 amended: every ticket minted bears the identifier numbered one more
\* than the tickets minted since the last initialize, which is greater than
\* the identifier of every ticket a slot holds; initialize restarts the
\* numbering and no other call changes the ticket counter.
TicketIdsGrowUntilInitialize ==
    [][ /\ IF Minted'
           THEN /\ MintedId' = "T" \o ToString(ticketCounter + 1)
                /\ ticketCounter' = ticketCounter + 1
                /\ \A i \in DOMAIN slots :
                      slots[i].occupied => slots[i].ticket.id # MintedId'
           ELSE IF out'.kind = "Initialized" THEN ticketCounter' = 0
           ELSE ticketCounter' = ticketCounter
        /\ \A i \in DOMAIN slots' :
              slots'[i].occupied
              => slots'[i].ticket.id \in TicketIds(1, ticketCounter')
      ]_vars

\* a ticket was minted after an initialize that followed two earlier tickets:
\* its identifier T1 has been issued before
TicketIdsRestartWitness ==
    /\ Minted
    /\ MintedId = "T1"
    /\ highestIssued >= 2

\* ------------------------------------------------------------- C12
\* the class of the slot at index i in a lot laid out as Car, Bike, Truck blocks
BlockType(i, nCar, nBike) ==
    IF i < nCar THEN "CAR" ELSE IF i < nCar + nBike THEN "BIKE" ELSE "TRUCK"

\* C12: after initialize(nCar, nBike, nTruck), whatever the state it was
\* called in, there are exactly nCar + nBike + nTruck slots, all Free, in
\* contiguous index blocks Car, Bike, Truck; the free heap of each class holds
\* exactly the indices of its block, once each; the directory and the
\* waitlist are empty; ticket counter, served count and earnings are zero.
InitializeDiscardsState ==
    out.kind = "Initialized" =>
        /\ out.total = out.cars + out.bikes + out.trucks
        /\ DOMAIN slots = 0 .. (out.total - 1)
        /\ \A i \in DOMAIN slots :
              /\ ~slots[i].occupied
              /\ slots[i].index = i
              /\ slots[i].type = BlockType(i, out.cars, out.bikes)
        /\ \A vt \in VehicleTypes :
              /\ BagToSet(heapFor(vt)) = {i \in DOMAIN slots : slots[i].type = vt}
              /\ \A i \in BagToSet(heapFor(vt)) : CopiesIn(i, heapFor(vt)) = 1
        /\ DOMAIN vehicleToSlot = {}
        /\ waitlist = <<>>
        /\ ticketCounter = 0
        /\ totalVehiclesServed = 0
        /\ totalEarnings = 0

\* initialize has just rebuilt a lot of a Car and a Bike slot after tickets
\* had been minted in the lot before it
InitializeDiscardsStateWitness ==
    /\ out.kind = "Initialized"
    /\ out.cars = 1
    /\ out.bikes = 1
    /\ highestIssued >= 2

\* ------------------------------------------------------------- C13
ReportKinds == {"Availability", "Stats", "Layout"}

\* C13: displayAvailability, displayStats and printSlotsLayout leave slots,
\* free heaps, directory, waitlist and its order, counters, earnings and rates
\* as they were, and a report called again right after itself prints the same.
ReportsChangeNothing ==
    [][out'.kind \in ReportKinds =>
          /\ EngineState' = EngineState
          /\ (out.kind = out'.kind => out' = out)]_vars

\* displayAvailability has printed a lot with an occupied slot and two
\* requests on the waitlist
ReportsChangeNothingWitness ==
    /\ out.kind = "Availability"
    /\ out.waitSize = 2
    /\ DOMAIN out.occupied # {}

\* ------------------------------------------------------------- C14
\* C14: the directory entry of every vehicle names a slot of the lot that is
\* Occupied and holds a ticket bearing that vehicle's id, so vehicleExit never
\* takes its internal-inconsistency branch.
DirectoryPointsAtOwnSlot ==
    /\ \A v \in DOMAIN vehicleToSlot :
          /\ vehicleToSlot[v] \in DOMAIN slots
          /\ slots[vehicleToSlot[v]].occupied
          /\ slots[vehicleToSlot[v]].ticket.vehicleID = v
    /\ out.kind # "Inconsistent"

\* a vehicle holds two slots and the directory names the one it was bound to
\* last
DirectoryPointsAtOwnSlotWitness ==
    \E i \in OccupiedSlots :
        /\ slots[i].ticket.vehicleID \in DOMAIN vehicleToSlot
        /\ vehicleToSlot[slots[i].ticket.vehicleID] # i

\* ------------------------------------------------------------- C15
\* a request of class c waits behind a front request whose class has no slot
\* in the lot, while the lot has slots of class c
Blocked(c) ==
    /\ WaitingOf(c) # {}
    /\ waitlist[1].type # c
    /\ \A i \in DOMAIN slots : slots[i].type # waitlist[1].type
    /\ \E i \in DOMAIN slots : slots[i].type = c

\* once blocked, a request stays blocked whatever is called, initialize
\* excepted: vehicleExit pops the front only for a slot of the front's class,
\* and the lot has none, so no release of a class-c slot, however many
\* follow, binds the request
BlockedStaysBlocked ==
    [][\A c \in VehicleTypes :
          (Blocked(c) /\ out'.kind # "Initialized") => Blocked(c)']_vars

\* C15: no request starves while slots of its class keep being released,
\* whatever requests of other classes are queued ahead of it.  A run that
\* goes on releasing slots of class c binds every waiting class-c request, so
\* no exit releases a class-c slot and leaves a class-c request blocked.
NoRequestBlockedAtRelease ==
    \A c \in VehicleTypes :
        ~ ( /\ out.kind = "Receipt"
            /\ out.type = c
            /\ ~out.assignedToWait
            /\ Blocked(c) )

\* ------------------------------------------------------------- C16
\* C16: no call but initialize changes the set of slots or the class and
\* index of a slot, and every Occupied slot holds a ticket whose vehicle
\* class is the slot's class and whose slot index is the slot's own index,
\* the ticket coming from a fresh entry or from a rebinding in exit.
SlotClassFixedAndMatched ==
    [][ /\ out'.kind # "Initialized" =>
              /\ DOMAIN slots' = DOMAIN slots
              /\ \A i \in DOMAIN slots :
                    /\ slots'[i].type = slots[i].type
                    /\ slots'[i].index = slots[i].index
        /\ \A i \in DOMAIN slots' :
              /\ slots'[i].index = i
              /\ slots'[i].occupied =>
                    /\ slots'[i].ticket.vtype = slots'[i].type
                    /\ slots'[i].ticket.slotIndex = i
      ]_vars

\* an exit has rebound a Bike slot that is not the first of the lot to a
\* waiting request
SlotClassFixedAndMatchedWitness ==
    /\ Rebound
    /\ \E i \in OccupiedSlots :
          /\ i > 0
          /\ slots[i].ticket.id = out.newTicket
          /\ slots[i].ticket.vtype = "BIKE"

\* ------------------------------------------------------------- C17
\* C17: the total earnings change only in a successful exit, which adds the
\* fee of its receipt, billed hours times the rate of the slot's class, and
\* in initialize, which sets them to zero; a rejected entry or exit, a queued
\* entry, setRate and the reports leave them as they were.
EarningsGrowByReceiptFee ==
    [][ IF out'.kind = "Receipt"
        THEN /\ totalEarnings' = totalEarnings + out'.fee
             /\ out'.fee = out'.hours * ratePerHour[out'.type]
        ELSE IF out'.kind = "Initialized"
        THEN totalEarnings' = 0
        ELSE totalEarnings' = totalEarnings
      ]_vars

\* an exit billed for two hours has added its fee to earlier earnings
EarningsGrowByReceiptFeeWitness ==
    /\ out.kind = "Receipt"
    /\ out.hours = 2
    /\ totalEarnings > out.fee

\* ------------------------------------------------------------- C18
\* C18: the served count equals the ticket counter in every state; a call
\* that binds a slot, by a fresh entry or by a rebinding in exit, adds one to
\* both, initialize sets both to zero, and no other call (queued or rejected
\* entry, rejected exit, exit without rebinding, setRate, a report) changes
\* either.
ServedEqualsTickets ==
    [][ /\ totalVehiclesServed = ticketCounter
        /\ totalVehiclesServed' = ticketCounter'
        /\ IF Minted' THEN ticketCounter' = ticketCounter + 1
           ELSE IF out'.kind = "Initialized" THEN ticketCounter' = 0
           ELSE ticketCounter' = ticketCounter
      ]_vars

\* an exit has rebound its slot in a lot that has now served two vehicles
ServedEqualsTicketsWitness ==
    /\ Rebound
    /\ totalVehiclesServed = 2
    /\ ticketCounter = 2

====
